---- MODULE Spec2Model ----
(***************************************************************************)
(* Event ingestion and alert rule evaluation of midnite-test.              *)
(*                                                                         *)
(* events/models.py      the Event table (timestamp is UNIQUE)             *)
(* events/serializers.py EventSerializer: field checks and the global      *)
(*                       ordering pre-check                                *)
(* events/services.py    AlertRuleEngine: the four rules                   *)
(* events/views.py       EventView.post: validate, then inside one         *)
(*                       transaction.atomic() block create the event and   *)
(*                       evaluate the rules, then answer                   *)
(*                                                                         *)
(* Amounts are in hundredths (10000 is Decimal("100.00")).                 *)
(* Several requests are served at once by the workers of the web server;   *)
(* each worker runs post() for one request at a time.                      *)
(***************************************************************************)
EXTENDS Integers, Sequences, FiniteSets, TLC

\* ---------------------------------------------------------------- bounds
MaxT == 2

\* The workers of the web server: each runs post() for one request at a time.
Workers == {1, 2}

\* ------------------------------------------------------- request payloads
\* Users created out of band (create_test_users.py).
AllUsers == {1, 2}
Amounts == {1000, 2000, 15000}
Timestamps == 0..MaxT

\* A payload carries the four fields of EventSerializer; missing names the
\* fields the request body leaves out (the value of such a field is unused).
NoFieldMissing == {}

\* Traffic of the concurrent specification: withdraws of two users, and
\* invalid fields: amount 0, user 3 (no user), timestamp -1.
MixedPayloads ==
    [type : {"withdraw"}, amount : {0, 15000}, user_id : {1, 2, 3},
     t : {0 - 1} \cup Timestamps, missing : {NoFieldMissing}]

\* Traffic of the serial specification: well-formed deposits and withdraws
\* of one user with three different amounts.
RichPayloads ==
    [type : {"deposit", "withdraw"}, amount : Amounts, user_id : {1},
     t : Timestamps, missing : {NoFieldMissing}]

NoPayload ==
    [type |-> "none", amount |-> 0, user_id |-> 0, t |-> 0,
     missing |-> NoFieldMissing]

\* ------------------------------------------------------------ the storage
\* The database backends Django ships; settings.DATABASES selects one.
Backends == {"postgresql", "sqlite3"}

VARIABLES
    backend,    \* the configured database backend
    users,      \* the ids in the users table
    traffic,    \* the payloads the clients send
    rows,       \* the events table: rows, committed (tx = 0) or written by
                \* the open transaction of worker tx
    worker,     \* per running worker: the stage of post() and its locals
    response    \* the response returned last

vars == <<backend, users, traffic, rows, worker, response>>

\* Event rows. id is the primary key, tx the writing transaction.
Committed(rs) == {e \in rs : e.tx = 0}

\* Queries that miss the writes of the own transaction.
VisibleCommittedOnly(rs, w) == {e \in rs : e.tx = 0}

\* What the queries of worker w read: committed rows and its own writes.
Visible(rs, w) == {e \in rs : e.tx = 0 \/ e.tx = w}

\* The primary key of a new row: a key no row holds (the smallest such).
NextId(rs) ==
    CHOOSE i \in 1..(Cardinality(rs) + 1) :
        /\ i \notin {e.id : e \in rs}
        /\ \A j \in 1..(i - 1) : j \in {e.id : e \in rs}

\* A key of (user, timestamp) instead of the timestamp alone.
SameKeyPerUser(e1, e2) == e1.timestamp = e2.timestamp /\ e1.user = e2.user

\* models.py:49-51  timestamp = BigIntegerField(unique=True): two rows
\* conflict when they carry the same timestamp, whoever the user is.
SameKey(e1, e2) == e1.timestamp = e2.timestamp

\* The INSERT of row e fails with IntegrityError when a committed row
\* holds the same key.
UniqueViolation(rs, e) == \E o \in Committed(rs) : SameKey(o, e)

\* An INSERT that waits for every other open transaction that has written.
InsertBlockedByAnyWriter(rs, e) ==
    \E o \in rs : o.tx # 0 /\ o.tx # e.tx

\* The INSERT waits while another open transaction holds a row with that key
\* (it fails once that transaction commits, goes on once it rolls back).
InsertBlocked(rs, e) ==
    \E o \in rs : o.tx # 0 /\ o.tx # e.tx /\ SameKey(o, e)

\* str(e) of the IntegrityError of a unique violation on events_event.timestamp,
\* as far as views.py:73 looks at it: does it contain "timestamp", does it
\* contain (lower case) "unique".
\*   postgresql: duplicate key value violates unique constraint
\*               "events_event_timestamp_key"
\*   sqlite3:    UNIQUE constraint failed: events_event.timestamp
IntegrityErrorText(b) ==
    [has_timestamp |-> TRUE, has_unique |-> (b = "postgresql")]

\* ------------------------------------------------- services.py, the rules
\* QuerySet.order_by("-timestamp"): the rows of S as a sequence, newest first.
RECURSIVE OrderByTimestampDesc(_)
OrderByTimestampDesc(S) ==
    IF S = {} THEN <<>>
    ELSE LET first == CHOOSE e \in S : \A o \in S :
                          \/ o.timestamp < e.timestamp
                          \/ (o.timestamp = e.timestamp /\ o.id <= e.id)
         IN  <<first>> \o OrderByTimestampDesc(S \ {first})

\* queryset[:n]
Slice(q, n) == SubSeq(q, 1, IF Len(q) < n THEN Len(q) ELSE n)

\* sum(event.amount for event in S)
RECURSIVE SumAmounts(_)
SumAmounts(S) ==
    IF S = {} THEN 0
    ELSE LET e == CHOOSE x \in S : TRUE
         IN  e.amount + SumAmounts(S \ {e})

\* A threshold that 100.00 itself reaches.
check_withdraw_from_100(amount) == amount >= 10000

\* Code 1100: a withdraw amount over 100
check_withdraw_over_100(amount) == amount > 10000

\* The last 3 events of whichever user.
check_3_consecutive_withdraws_any_user(rs, user, timestamp) ==
    LET recent_events ==
            Slice(OrderByTimestampDesc(
                {e \in rs : e.timestamp <= timestamp}), 3)
    IN  IF Len(recent_events) < 3 THEN FALSE
        ELSE \A i \in 1..Len(recent_events) :
                 recent_events[i].transaction_type = "withdraw"

\* The last 3 withdraws, deposits between them skipped.
check_3_withdraws_skipping_deposits(rs, user, timestamp) ==
    Cardinality({e \in rs : /\ e.user = user
                            /\ e.transaction_type = "withdraw"
                            /\ e.timestamp <= timestamp}) >= 3

\* Code 30: 3 consecutive withdraws
check_3_consecutive_withdraws(rs, user, timestamp) ==
    LET recent_events ==
            Slice(OrderByTimestampDesc(
                {e \in rs : e.user = user /\ e.timestamp <= timestamp}), 3)
    IN  IF Len(recent_events) < 3 THEN FALSE
        ELSE \A i \in 1..Len(recent_events) :
                 recent_events[i].transaction_type = "withdraw"

\* Increasing deposits that a withdraw between them interrupts: the last 3
\* events of the user must be the deposits.
check_3_increasing_deposits_unbroken(rs, user, timestamp) ==
    LET recent_events ==
            Slice(OrderByTimestampDesc(
                {e \in rs : e.user = user /\ e.timestamp <= timestamp}), 3)
    IN  IF Len(recent_events) < 3 THEN FALSE
        ELSE /\ \A i \in 1..3 : recent_events[i].transaction_type = "deposit"
             /\ recent_events[1].amount > recent_events[2].amount
             /\ recent_events[2].amount > recent_events[3].amount

\* Code 300: 3 consecutive increasing deposits (ignoring withdraws)
check_3_consecutive_increasing_deposits(rs, user, timestamp) ==
    LET deposit_events ==
            OrderByTimestampDesc(
                {e \in rs : /\ e.user = user
                            /\ e.transaction_type = "deposit"
                            /\ e.timestamp <= timestamp})
    IN  IF Len(deposit_events) < 3 THEN FALSE
        ELSE LET last_3_deposits == Slice(deposit_events, 3)
                 amounts == [i \in 1..3 |-> last_3_deposits[i].amount]
             IN  amounts[1] > amounts[2] /\ amounts[2] > amounts[3]

\* A window that is open at its start: a deposit at t - 30 is left out.
check_accumulative_deposit_open_window(rs, user, timestamp) ==
    LET window_start == timestamp - 30
        deposit_events ==
            {e \in rs : /\ e.user = user
                        /\ e.transaction_type = "deposit"
                        /\ e.timestamp > window_start
                        /\ e.timestamp <= timestamp}
    IN  SumAmounts(deposit_events) > 20000

\* A total of exactly 200.00 triggers too.
check_accumulative_deposit_from_200(rs, user, timestamp) ==
    LET window_start == timestamp - 30
        deposit_events ==
            {e \in rs : /\ e.user = user
                        /\ e.transaction_type = "deposit"
                        /\ e.timestamp >= window_start
                        /\ e.timestamp <= timestamp}
    IN  SumAmounts(deposit_events) >= 20000

\* Code 123: accumulative deposit amount over a window of 30 seconds over 200
check_accumulative_deposit_over_200_in_30_seconds(rs, user, timestamp) ==
    LET window_start == timestamp - 30
        deposit_events ==
            {e \in rs : /\ e.user = user
                        /\ e.transaction_type = "deposit"
                        /\ e.timestamp >= window_start
                        /\ e.timestamp <= timestamp}
        total_amount == SumAmounts(deposit_events)
    IN  total_amount > 20000

\* Every check is tried whatever the type of the event.
rules_evaluated_all(transaction_type) == {1100, 30, 300, 123}

\* services.py:142-156  each check stands behind a test of the type
\* ("transaction_type == ... and cls.check_...(...)"): the checks that are
\* evaluated for an event of that type, by their codes.
rules_evaluated(transaction_type) ==
    (IF transaction_type = "withdraw" THEN {1100} ELSE {})
    \cup (IF transaction_type = "withdraw" THEN {30} ELSE {})
    \cup (IF transaction_type = "deposit" THEN {300} ELSE {})
    \cup (IF transaction_type = "deposit" THEN {123} ELSE {})

\* An engine that remembers what it reported: a code that is in the list
\* returned last is not reported again.
evaluate_all_rules_once(rs, user, transaction_type, amount, timestamp) ==
    LET c1100 == IF 1100 \in rules_evaluated(transaction_type)
                    /\ check_withdraw_over_100(amount)
                 THEN <<1100>> ELSE <<>>
        c30   == IF 30 \in rules_evaluated(transaction_type)
                    /\ check_3_consecutive_withdraws(rs, user, timestamp)
                 THEN <<30>> ELSE <<>>
        c300  == IF 300 \in rules_evaluated(transaction_type)
                    /\ check_3_consecutive_increasing_deposits(rs, user, timestamp)
                 THEN <<300>> ELSE <<>>
        c123  == IF 123 \in rules_evaluated(transaction_type)
                    /\ check_accumulative_deposit_over_200_in_30_seconds(
                           rs, user, timestamp)
                 THEN <<123>> ELSE <<>>
        reported(c) == \E i \in 1..Len(response.alert_codes) :
                           response.alert_codes[i] = c
        fresh(c) == ~reported(c)
    IN  SelectSeq(c1100 \o c30 \o c300 \o c123, fresh)

\* The rules tried in another order: 30 before 1100, 123 before 300.
evaluate_all_rules_reordered(rs, user, transaction_type, amount, timestamp) ==
    LET c1100 == IF 1100 \in rules_evaluated(transaction_type)
                    /\ check_withdraw_over_100(amount)
                 THEN <<1100>> ELSE <<>>
        c30   == IF 30 \in rules_evaluated(transaction_type)
                    /\ check_3_consecutive_withdraws(rs, user, timestamp)
                 THEN <<30>> ELSE <<>>
        c300  == IF 300 \in rules_evaluated(transaction_type)
                    /\ check_3_consecutive_increasing_deposits(rs, user, timestamp)
                 THEN <<300>> ELSE <<>>
        c123  == IF 123 \in rules_evaluated(transaction_type)
                    /\ check_accumulative_deposit_over_200_in_30_seconds(
                           rs, user, timestamp)
                 THEN <<123>> ELSE <<>>
    IN  c30 \o c1100 \o c123 \o c300

\* The list of triggered alert codes, in the order the rules are tried.
evaluate_all_rules(rs, user, transaction_type, amount, timestamp) ==
    LET c1100 == IF 1100 \in rules_evaluated(transaction_type)
                    /\ check_withdraw_over_100(amount)
                 THEN <<1100>> ELSE <<>>
        c30   == IF 30 \in rules_evaluated(transaction_type)
                    /\ check_3_consecutive_withdraws(rs, user, timestamp)
                 THEN <<30>> ELSE <<>>
        c300  == IF 300 \in rules_evaluated(transaction_type)
                    /\ check_3_consecutive_increasing_deposits(rs, user, timestamp)
                 THEN <<300>> ELSE <<>>
        c123  == IF 123 \in rules_evaluated(transaction_type)
                    /\ check_accumulative_deposit_over_200_in_30_seconds(
                           rs, user, timestamp)
                 THEN <<123>> ELSE <<>>
    IN  c1100 \o c30 \o c300 \o c123

\* ------------------------------------------- serializers.py, EventSerializer
\* Field validators that refuse an amount below zero only.
FieldErrorsZeroAmount(p, us) ==
    (IF "type" \in p.missing THEN {"type.required"}
     ELSE IF p.type \notin {"deposit", "withdraw"} THEN {"type"} ELSE {})
    \cup (IF "amount" \in p.missing THEN {"amount.required"}
          ELSE IF p.amount < 0 THEN {"amount"} ELSE {})
    \cup (IF "user_id" \in p.missing THEN {"user_id.required"}
          ELSE IF p.user_id < 1 THEN {"user_id.min_value"}
          ELSE IF p.user_id \notin us THEN {"user_id.does_not_exist"}
          ELSE {})
    \cup (IF "t" \in p.missing THEN {"t.required"}
          ELSE IF p.t < 0 THEN {"t.min_value"} ELSE {})

\* Field validators without the lookup of the user.
FieldErrorsNoUserLookup(p, us) ==
    (IF "type" \in p.missing THEN {"type.required"}
     ELSE IF p.type \notin {"deposit", "withdraw"} THEN {"type"} ELSE {})
    \cup (IF "amount" \in p.missing THEN {"amount.required"}
          ELSE IF p.amount <= 0 THEN {"amount"} ELSE {})
    \cup (IF "user_id" \in p.missing THEN {"user_id.required"}
          ELSE IF p.user_id < 1 THEN {"user_id.min_value"} ELSE {})
    \cup (IF "t" \in p.missing THEN {"t.required"}
          ELSE IF p.t < 0 THEN {"t.min_value"} ELSE {})

\* The errors of the field validators: every field is required; ChoiceField,
\* validate_amount, IntegerField(min_value=1) and validate_user_id,
\* IntegerField(min_value=0).
FieldErrors(p, us) ==
    (IF "type" \in p.missing THEN {"type.required"}
     ELSE IF p.type \notin {"deposit", "withdraw"} THEN {"type"} ELSE {})
    \cup (IF "amount" \in p.missing THEN {"amount.required"}
          ELSE IF p.amount <= 0 THEN {"amount"} ELSE {})
    \cup (IF "user_id" \in p.missing THEN {"user_id.required"}
          ELSE IF p.user_id < 1 THEN {"user_id.min_value"}
          ELSE IF p.user_id \notin us THEN {"user_id.does_not_exist"}
          ELSE {})
    \cup (IF "t" \in p.missing THEN {"t.required"}
          ELSE IF p.t < 0 THEN {"t.min_value"} ELSE {})

\* Event.objects.order_by("-timestamp").first(), read outside any
\* transaction: the committed rows with the largest timestamp (none when the
\* table is empty; first() takes one of them).
latest_event(rs) ==
    {e \in Committed(rs) : \A o \in Committed(rs) : o.timestamp <= e.timestamp}

\* No ordering pre-check at all.
validateNothing(p, rs) == {}

\* A pre-check against the latest event of the same user only.
validatePerUser(p, rs) ==
    IF \E l \in latest_event({e \in rs : e.user = p.user_id}) :
           p.t <= l.timestamp
    THEN {"t.order"} ELSE {}

\* A pre-check that lets a timestamp equal to the latest one pass.
validateBelowOnly(p, rs) ==
    IF \E l \in latest_event(rs) : p.t < l.timestamp
    THEN {"t.order"} ELSE {}

\* EventSerializer.validate: the global ordering pre-check.
validate(p, rs) ==
    IF \E l \in latest_event(rs) : p.t <= l.timestamp
    THEN {"t.order"} ELSE {}

\* serializer.errors after is_valid(): validate() runs only when every
\* field passed.
SerializerErrors(p, us, rs) ==
    IF FieldErrors(p, us) # {} THEN FieldErrors(p, us) ELSE validate(p, rs)

\* A response serializer whose list field refuses an empty list.
ResponseIsValidNonEmpty(alert, alert_codes, user_id) ==
    /\ alert \in BOOLEAN
    /\ Len(alert_codes) > 0
    /\ \A i \in 1..Len(alert_codes) : alert_codes[i] \in Int
    /\ user_id \in Int

\* EventResponseSerializer.is_valid() on response_data.
ResponseIsValid(alert, alert_codes, user_id) ==
    /\ alert \in BOOLEAN
    /\ \A i \in 1..Len(alert_codes) : alert_codes[i] \in Int
    /\ user_id \in Int

\* ------------------------------------------------------ views.py, responses
\* A response whose alert flag tells that the request succeeded.
ResponseAlertOnSuccess(status, error, details, codes, user_id, t, latest) ==
    [status |-> status, error |-> error, details |-> details,
     alert |-> status = 200, alert_codes |-> codes,
     user_id |-> user_id, t |-> t, latest |-> latest]

\* t and latest are the timestamps the error messages quote.
Response(status, error, details, codes, user_id, t, latest) ==
    [status |-> status, error |-> error, details |-> details,
     alert |-> Len(codes) > 0, alert_codes |-> codes,
     user_id |-> user_id, t |-> t, latest |-> latest]

NoResponse == Response(0, "", {}, <<>>, 0, 0, 0)

InvalidPayload(p, errors, rs) ==
    IF errors = {"t.order"}
    THEN Response(400, "Invalid payload", errors, <<>>, 0, p.t,
                  (CHOOSE l \in latest_event(rs) : TRUE).timestamp)
    ELSE Response(400, "Invalid payload", errors, <<>>, 0, 0, 0)

Idle == [stage |-> "idle", request |-> NoPayload, event_id |-> 0]

\* A row stamped by the server (the number of rows so far) instead of with
\* the client's timestamp.
NewEventServerStamp(rs, w, p) ==
    [id |-> NextId(rs), user |-> p.user_id, transaction_type |-> p.type,
     amount |-> p.amount, timestamp |-> Cardinality(rs), tx |-> w]

\* The row Event.objects.create() inserts for worker w.
NewEvent(rs, w, p) ==
    [id |-> NextId(rs), user |-> p.user_id, transaction_type |-> p.type,
     amount |-> p.amount, timestamp |-> p.t, tx |-> w]

\* A table that keeps the newest committed event only.
CommitLatestOnly(rs, w) ==
    {[e EXCEPT !.tx = 0] : e \in {x \in rs : x.tx = w}}
    \cup {e \in rs : e.tx # 0 /\ e.tx # w}

\* Leaving the atomic block normally commits the rows of worker w.
Commit(rs, w) ==
    {IF e.tx = w THEN [e EXCEPT !.tx = 0] ELSE e : e \in rs}

\* No atomic block: every statement commits at once and stays.
RollbackKeepsRows(rs, w) ==
    {IF e.tx = w THEN [e EXCEPT !.tx = 0] ELSE e : e \in rs}

\* An abort that leaves the uncommitted rows behind.
RollbackLeavesPending(rs, w) == rs

\* Leaving the atomic block by an exception discards them.
Rollback(rs, w) == {e \in rs : e.tx # w}

\* ------------------------------------------------------------------ actions
\* views.py:22-52  a request arrives at an idle worker; the serializer
\* checks it; an invalid payload is answered 400 at once.
Validate(w, p) ==
    /\ worker[w].stage = "idle"
    /\ LET errors == SerializerErrors(p, users, rows)
       IN  IF errors # {}
           THEN /\ response' = InvalidPayload(p, errors, rows)
                /\ UNCHANGED worker
           ELSE /\ worker' = [worker EXCEPT ![w] =
                                 [stage |-> "Appending", request |-> p, event_id |-> 0]]
                /\ UNCHANGED response
    /\ UNCHANGED <<backend, users, traffic, rows>>

\* views.py:54-62, 72-88  inside transaction.atomic(): Event.objects.create().
\* When the INSERT raises IntegrityError the atomic block rolls back and the
\* handler answers 409 or 500 after looking at the message.
AppendEvent(w) ==
    /\ worker[w].stage = "Appending"
    /\ LET p == worker[w].request
           e == NewEvent(rows, w, p)
           msg == IntegrityErrorText(backend)
       IN  /\ ~InsertBlocked(rows, e)
           /\ IF UniqueViolation(rows, e)
              THEN /\ rows' = Rollback(rows, w)
                   /\ worker' = [worker EXCEPT ![w] = Idle]
                   /\ response' =
                         IF msg.has_timestamp /\ msg.has_unique
                         THEN Response(409, "Duplicate timestamp", {}, <<>>,
                                       p.user_id, p.t, 0)
                         ELSE Response(500, "Database error", {}, <<>>, 0, 0, 0)
              ELSE /\ rows' = rows \cup {e}
                   /\ worker' = [worker EXCEPT ![w].stage = "Evaluating",
                                               ![w].event_id = e.id]
                   /\ UNCHANGED response
    /\ UNCHANGED <<backend, users, traffic>>

\* views.py:65-71, 90-111  evaluate the rules inside the atomic block, leave
\* it (commit), build and check the response, answer.
Evaluate(w) ==
    /\ worker[w].stage = "Evaluating"
    /\ LET p == worker[w].request
           alert_codes == evaluate_all_rules(Visible(rows, w), p.user_id,
                                             p.type, p.amount, p.t)
       IN  /\ rows' = Commit(rows, w)
           /\ response' =
                 IF ResponseIsValid(Len(alert_codes) > 0, alert_codes, p.user_id)
                 THEN Response(200, "", {}, alert_codes, p.user_id, 0, 0)
                 ELSE Response(500, "Response validation failed", {}, <<>>, 0, 0, 0)
    /\ worker' = [worker EXCEPT ![w] = Idle]
    /\ UNCHANGED <<backend, users, traffic>>

\* An exception other than IntegrityError inside the atomic block (a storage
\* fault in create() or in a rule query): the block rolls back, nothing in
\* post() catches it, the framework answers 500.
Fault(w) ==
    /\ worker[w].stage \in {"Appending", "Evaluating"}
    /\ rows' = Rollback(rows, w)
    /\ response' = Response(500, "Server Error", {}, <<>>, 0, 0, 0)
    /\ worker' = [worker EXCEPT ![w] = Idle]
    /\ UNCHANGED <<backend, users, traffic>>

Next ==
    \/ \E w \in DOMAIN worker, p \in traffic : Validate(w, p)
    \/ \E w \in DOMAIN worker : AppendEvent(w)
    \/ \E w \in DOMAIN worker : Evaluate(w)
    \/ \E w \in DOMAIN worker : Fault(w)

\* Concurrent ingestion: every worker runs, two users, any backend.
Init ==
    /\ backend \in Backends
    /\ users = AllUsers
    /\ traffic = MixedPayloads
    /\ rows = {}
    /\ worker = [w \in Workers |-> Idle]
    /\ response = NoResponse

Spec == Init /\ [][Next]_vars

\* A worker that has a request runs on: post() is one synchronous call, so
\* the evaluation and the commit follow the append without anything to wait
\* for, and an INSERT that waits for the transaction of another request is
\* carried out by the storage when that transaction ends (strong fairness:
\* the waiting statement is next in line, whatever arrives later).
Fairness ==
    \A w \in Workers : SF_vars(AppendEvent(w)) /\ WF_vars(Evaluate(w))

\* Traffic of the fair specification: withdraws of one user at every
\* timestamp, and a request the serializer refuses.
LivePayloads ==
    [type : {"withdraw"}, amount : {15000}, user_id : {1},
     t : Timestamps, missing : {NoFieldMissing}]
    \cup [type : {"withdraw"}, amount : {0}, user_id : {1},
          t : {MaxT}, missing : {NoFieldMissing}]

InitLive ==
    /\ backend = "postgresql"
    /\ users = AllUsers
    /\ traffic = LivePayloads
    /\ rows = {}
    /\ worker = [w \in Workers |-> Idle]
    /\ response = NoResponse

SpecLive == InitLive /\ [][Next]_vars /\ Fairness

\* Concurrent ingestion of the events of one user over one timestamp more
\* than Timestamps has: room for a fourth event after three.
StreakPayloads ==
    [type : {"deposit", "withdraw"}, amount : {1000}, user_id : {1},
     t : 0..(MaxT + 1), missing : {NoFieldMissing}]

InitStreak ==
    /\ backend = "postgresql"
    /\ users = {1}
    /\ traffic = StreakPayloads
    /\ rows = {}
    /\ worker = [w \in Workers |-> Idle]
    /\ response = NoResponse

SpecStreak == InitStreak /\ [][Next]_vars

\* Serial ingestion: one worker, so requests are processed one at a time.
InitSerial ==
    /\ backend = "sqlite3"
    /\ users = {1}
    /\ traffic = RichPayloads
    /\ rows = {}
    /\ worker = [w \in {1} |-> Idle]
    /\ response = NoResponse

SpecSerial == InitSerial /\ [][Next]_vars

\* Ingestion at the edges of the input: one worker, amounts at the
\* thresholds of the rules, and requests the serializer refuses: a type that
\* is no choice, amounts of zero and below, user ids of zero and below and
\* of no user, a negative timestamp, fields left out.
ThresholdAmounts == {10000, 10001, 20000, 20001}

FieldNames == {"type", "amount", "user_id", "t"}

EdgePayloads ==
    [type : {"deposit", "withdraw"}, amount : ThresholdAmounts, user_id : {1},
     t : Timestamps, missing : {NoFieldMissing}]
    \cup [type : {"deposit", "transfer"}, amount : {0 - 4200, 0, 4200},
          user_id : {0 - 1, 0, 1, 3}, t : {0 - 1, MaxT},
          missing : {NoFieldMissing}]
    \cup [type : {"deposit"}, amount : {4200}, user_id : {1}, t : {MaxT},
          missing : (SUBSET FieldNames) \ {NoFieldMissing}]

InitEdge ==
    /\ backend = "sqlite3"
    /\ users = AllUsers
    /\ traffic = EdgePayloads
    /\ rows = {}
    /\ worker = [w \in {1} |-> Idle]
    /\ response = NoResponse

SpecEdge == InitEdge /\ [][Next]_vars

\* ------------------------------------- the rule engine, called on its own
\* test_events.py, AlertRuleEngineTest: events are created in the table
\* directly, then the rule engine is called with a user, a type, an amount
\* and a timestamp of the caller's choice; no event is appended for the call.
RuleAmounts == {10000, 10001, 20001}

\* Timestamps up to MaxT and one 30 seconds after MaxT: from there MaxT is
\* the start of the window and MaxT - 1 lies before it.
RuleTimestamps == Timestamps \cup {MaxT + 30}

RulePayloads ==
    [type : {"deposit", "withdraw"}, amount : RuleAmounts, user_id : {1},
     t : RuleTimestamps, missing : {NoFieldMissing}]
    \cup [type : {"withdraw"}, amount : {10001}, user_id : {2},
          t : RuleTimestamps, missing : {NoFieldMissing}]
    \cup [type : {"deposit"}, amount : {20001}, user_id : {2},
          t : RuleTimestamps, missing : {NoFieldMissing}]

\* Event.objects.create(user=..., transaction_type=..., amount=...,
\* timestamp=...) of a test: the row is there at once. The tests create
\* their events in the order of the timestamps.
CreateEvent(w, p) ==
    /\ worker[w].stage = "idle"
    /\ \A e \in rows : e.timestamp < p.t
    /\ rows' = rows \cup {NewEvent(rows, 0, p)}
    /\ UNCHANGED <<backend, users, traffic, worker, response>>

\* AlertRuleEngine.evaluate_all_rules(user=..., transaction_type=...,
\* amount=..., timestamp=...) of a test; the test ends with the list.
CallRules(w, p) ==
    /\ worker[w].stage = "idle"
    /\ worker' = [worker EXCEPT ![w] =
                      [stage |-> "called", request |-> p, event_id |-> 0]]
    /\ response' = Response(0, "", {},
                            evaluate_all_rules(rows, p.user_id, p.type,
                                               p.amount, p.t),
                            0, 0, 0)
    /\ UNCHANGED <<backend, users, traffic, rows>>

\* The same call made once more (the tests call the engine several times
\* in a row): the list it returns is the answer now.
CallRulesAgain(w) ==
    /\ worker[w].stage = "called"
    /\ LET p == worker[w].request
       IN  response' = Response(0, "", {},
                                evaluate_all_rules(rows, p.user_id, p.type,
                                                   p.amount, p.t),
                                0, 0, 0)
    /\ UNCHANGED <<backend, users, traffic, rows, worker>>

NextRules ==
    \/ \E w \in DOMAIN worker, p \in traffic : CreateEvent(w, p)
    \/ \E w \in DOMAIN worker, p \in traffic : CallRules(w, p)
    \/ \E w \in DOMAIN worker : CallRulesAgain(w)

InitRules ==
    /\ backend = "sqlite3"
    /\ users = AllUsers
    /\ traffic = RulePayloads
    /\ rows = {}
    /\ worker = [w \in {1} |-> Idle]
    /\ response = NoResponse

SpecRules == InitRules /\ [][NextRules]_vars

\* ------------------------------------------------------------------ claims
\* The ledger: the committed events.
Ledger == Committed(rows)

LedgerAfter == Committed(rows')

\* Worker w ends a request in this step.
Finishes(w) ==
    /\ worker[w].stage \in {"Appending", "Evaluating"}
    /\ worker'[w].stage = "idle"

\* Worker w ends a request with the success response in this step.
Accepted(w) ==
    /\ worker[w].stage = "Evaluating"
    /\ worker'[w].stage = "idle"
    /\ response'.status = 200

\* The INSERT of worker w is refused in this step: its timestamp is stored
\* already and the request ends without a fault of the storage.
RefusedByConstraint(w) ==
    /\ worker[w].stage = "Appending"
    /\ worker'[w].stage = "idle"
    /\ \E o \in Ledger : o.timestamp = worker[w].request.t
    /\ response'.error # "Server Error"

\* The row of the ledger rs that was made from payload p under key id.
IsEventOf(e, id, p) ==
    /\ e.id = id
    /\ e.user = p.user_id
    /\ e.transaction_type = p.type
    /\ e.amount = p.amount
    /\ e.timestamp = p.t

\* C1: in every reachable state, under any interleaving of the workers, no
\* two stored events have the same timestamp, whether they belong to the
\* same user or to different users.
C1_TimestampUnique ==
    \A e1 \in Ledger, e2 \in Ledger :
        e1.timestamp = e2.timestamp => e1 = e2

\* Two requests with one timestamp raced: the event of one user is stored,
\* the request of the other worker was refused by the storage.
C1_Witness ==
    /\ response.error \in {"Duplicate timestamp", "Database error"}
    /\ \E e \in Ledger : e.timestamp = 0 /\ e.user = 2
    /\ \E e \in Ledger : e.timestamp = 1 /\ e.user = 1

\* C2: when a request is accepted, the ledger after it is the ledger before
\* it plus exactly one new event that carries the submitted user, type,
\* amount and timestamp, and no other event has that timestamp.
C2_AcceptedAddsExactlyOne ==
    [][\A w \in DOMAIN worker :
          Accepted(w) =>
              LET p == worker[w].request
                  added == LedgerAfter \ Ledger
              IN  /\ Ledger \subseteq LedgerAfter
                  /\ Cardinality(added) = 1
                  /\ \A e \in added : IsEventOf(e, worker[w].event_id, p)
                  /\ \A o \in LedgerAfter \ added : o.timestamp # p.t]_vars

\* A request of user 2 was accepted after one of user 1 was stored.
C2_Witness ==
    /\ response.status = 200
    /\ response.user_id = 2
    /\ \E e \in Ledger : e.user = 1 /\ e.timestamp = 0
    /\ \E e \in Ledger : e.user = 2 /\ e.timestamp = 1
    /\ Cardinality(Ledger) = 2

\* C3: a request whose timestamp is not above the largest timestamp stored
\* at validation time, of whichever user, is rejected with the ordering
\* error and stores no event; on an empty ledger no request is rejected for
\* ordering.
\*  - every well-formed payload with such a timestamp gets exactly the
\*    ordering error from the serializer, and none gets it on an empty ledger;
\*  - a request passes validation only with a timestamp above every stored one;
\*  - the ordering answer quotes the attempted and the largest stored
\*    timestamp and leaves the table as it was.
C3_OrderingViolation ==
    /\ [](\A p \in traffic :
              /\ (/\ FieldErrors(p, users) = {}
                  /\ \E o \in Ledger : p.t <= o.timestamp)
                 => SerializerErrors(p, users, rows) = {"t.order"}
              /\ Ledger = {} => "t.order" \notin SerializerErrors(p, users, rows))
    /\ [][/\ \A w \in DOMAIN worker :
                 (worker[w].stage = "idle" /\ worker'[w].stage = "Appending")
                 => /\ \A o \in Ledger : o.timestamp < worker'[w].request.t
                    /\ rows' = rows
          /\ (response' # response /\ "t.order" \in response'.details)
                 => /\ rows' = rows
                    /\ worker' = worker
                    /\ response'.status = 400
                    /\ response'.t <= response'.latest
                    /\ \E o \in Ledger : o.timestamp = response'.latest
                    /\ \A o \in Ledger : o.timestamp <= response'.latest]_vars

\* Timestamp 0 was refused for ordering while the only stored event, at
\* timestamp 1, belongs to user 1, and a well-formed payload of user 2 with
\* timestamp 0 gets that answer.
C3_Witness ==
    /\ response.status = 400
    /\ response.details = {"t.order"}
    /\ response.t = 0
    /\ response.latest = 1
    /\ \A e \in Ledger : e.user = 1 /\ e.timestamp = 1
    /\ \E p \in traffic :
           /\ p.user_id = 2 /\ p.t = 0
           /\ SerializerErrors(p, users, rows) = {"t.order"}

StoredOf(u) == {e \in Ledger : e.user = u}

MostRecent(S, n) ==
    {e \in S : Cardinality({o \in S : o.timestamp > e.timestamp}) < n}

\* C5: the rules are evaluated for a request only after its event has been
\* appended, and they count that event as part of the history: when the
\* success answer is given the event was in the table already, uncommitted,
\* written by the answering worker, and
\*  - a withdraw after two stored events of the user, the two most recent
\*    being withdraws, triggers 30;
\*  - a deposit above the user's two most recent stored deposits, the later
\*    of which is above the earlier, triggers 300;
\*  - a deposit that lifts the user's deposits of the last 30 seconds over
\*    200.00 triggers 123;
\*  - 30 and 300 are not triggered on fewer than three events of the user
\*    with the new one counted.
C5_EvaluatesAfterAppend ==
    [][\A w \in DOMAIN worker :
          Accepted(w) =>
              LET p == worker[w].request
                  codes == {response'.alert_codes[i] :
                                i \in 1..Len(response'.alert_codes)}
                  prior == {e \in StoredOf(p.user_id) : e.timestamp <= p.t}
                  last2 == MostRecent(prior, 2)
                  deposits == {e \in prior : e.transaction_type = "deposit"}
                  dep2 == MostRecent(deposits, 2)
                  window == {e \in deposits : e.timestamp >= p.t - 30
                                              /\ e.timestamp <= p.t}
              IN  /\ \E e \in rows :
                         /\ e.tx = w
                         /\ IsEventOf(e, worker[w].event_id, p)
                  /\ (/\ p.type = "withdraw"
                      /\ Cardinality(last2) = 2
                      /\ \A e \in last2 : e.transaction_type = "withdraw")
                     => 30 \in codes
                  /\ (/\ p.type = "deposit"
                      /\ Cardinality(dep2) = 2
                      /\ \A e \in dep2 : e.amount < p.amount
                      /\ \E e1 \in dep2, e2 \in dep2 :
                             /\ e1.timestamp < e2.timestamp
                             /\ e1.amount < e2.amount)
                     => 300 \in codes
                  /\ (/\ p.type = "deposit"
                      /\ SumAmounts(window) + p.amount > 20000)
                     => 123 \in codes
                  /\ Cardinality(prior) < 2
                     => (30 \notin codes /\ 300 \notin codes)]_vars

\* The third increasing deposit after two stored deposits got code 300.
C5_Witness ==
    /\ response.status = 200
    /\ response.alert_codes = <<300>>
    /\ Cardinality(Ledger) = 3
    /\ \A e \in Ledger : e.transaction_type = "deposit"
    /\ \E e \in Ledger : e.timestamp = MaxT /\ e.amount = 15000

\* C6: a request that ends with an error answer leaves the ledger as it was:
\* the committed events change only in the step that gives a success answer,
\* and a worker that ends a request with an error leaves no row of its own
\* in the table.
C6_FailureLeavesLedgerUnchanged ==
    [][/\ LedgerAfter # Ledger
          => /\ response'.status = 200
             /\ \E w \in DOMAIN worker : Accepted(w)
       /\ \A w \in DOMAIN worker :
              (Finishes(w) /\ response'.status # 200)
              => /\ LedgerAfter = Ledger
                 /\ \A e \in rows' : e.tx # w
       /\ (response' # response /\ response'.status = 400)
          => rows' = rows]_vars

\* A request was refused at the append and the table holds nothing but the
\* one stored event of the request that won.
C6_Witness ==
    /\ response.status \in {409, 500}
    /\ response.error \in {"Duplicate timestamp", "Database error"}
    /\ Cardinality(Ledger) = 1
    /\ rows = Ledger
    /\ \A w \in DOMAIN worker : worker[w].stage = "idle"

\* C7: when two concurrent requests with the same new timestamp both passed
\* the pre-check, the one whose INSERT comes second is answered Duplicate
\* timestamp, stores nothing, and the ledger holds exactly one event with
\* that timestamp.
C7_SameTimestampRace ==
    [][\A w \in DOMAIN worker :
          RefusedByConstraint(w) =>
              /\ response'.status = 409
              /\ response'.error = "Duplicate timestamp"
              /\ rows' = rows
              /\ Cardinality({e \in LedgerAfter :
                                 e.timestamp = worker[w].request.t}) = 1]_vars

\* C8: when two concurrent requests with different timestamps both passed
\* the pre-check and the one with the larger timestamp is stored first, the
\* one with the smaller timestamp is not accepted: the ledger never receives
\* an event whose timestamp is below a stored one.
C8_OutOfOrderRace ==
    [][\A w \in DOMAIN worker :
          Accepted(w) =>
              \A o \in Ledger : o.timestamp < worker[w].request.t]_vars

\* C9: when a request ends, its event is in the ledger exactly if the answer
\* is the success response with the alert decision; when the unit of work
\* aborts after the append, the appended row is not retained, committed or
\* not.
C9_Atomicity ==
    [][\A w \in DOMAIN worker :
          Finishes(w) =>
              LET p == worker[w].request
                  stored == \E e \in LedgerAfter \ Ledger :
                                IsEventOf(e, worker[w].event_id, p)
              IN  /\ stored <=> response'.status = 200
                  /\ stored => response'.alert = (Len(response'.alert_codes) > 0)
                  /\ response'.status # 200
                     => /\ LedgerAfter = Ledger
                        /\ \A e \in rows' : e.tx # w
                        /\ worker[w].stage = "Evaluating"
                           => rows' = rows \ {e \in rows : e.tx = w}]_vars

\* A unit of work aborted after its append: the row with key 1 is gone while
\* the row written after it, with key 2, is stored.
C9_Witness ==
    /\ response.error = "Server Error"
    /\ \E e \in Ledger : e.id = 2
    /\ \A e \in rows : e.id # 1
    /\ \A w \in DOMAIN worker : worker[w].stage = "idle"

\* C10: when the uniqueness constraint refuses the append, the answer is
\* Duplicate timestamp (409), not the database error and not success, no
\* event of the request is retained, and the request ends there, without
\* the rules being evaluated for it.
C10_ConstraintGivesDuplicateTimestamp ==
    [][\A w \in DOMAIN worker :
          (/\ worker[w].stage = "Appending"
           /\ worker'[w] # worker[w]
           /\ \E o \in Ledger : o.timestamp = worker[w].request.t
           /\ response'.error # "Server Error")
          => /\ response'.error = "Duplicate timestamp"
             /\ response'.status = 409
             /\ response'.user_id = worker[w].request.user_id
             /\ response'.alert_codes = <<>>
             /\ worker'[w].stage = "idle"
             /\ \A e \in rows' : e.tx # w
             /\ LedgerAfter = Ledger]_vars

\* The call the rule engine has answered: its arguments and the codes of
\* the list it returned.
Called(w) == worker[w].stage = "called"

ReturnedCodes == {response.alert_codes[i] : i \in 1..Len(response.alert_codes)}

\* The events of user u stored with a timestamp up to t.
StoredUpTo(u, t) == {e \in Ledger : e.user = u /\ e.timestamp <= t}

\* C11: rule 30 triggers for a withdraw evaluated at timestamp t exactly
\* when the user has at least 3 events with timestamp <= t and the 3 of them
\* with the largest timestamps are all withdraws; a deposit among those 3
\* prevents the trigger, fewer than 3 such events too.
C11_Rule30 ==
    \A w \in DOMAIN worker :
        (Called(w) /\ worker[w].request.type = "withdraw") =>
            LET p == worker[w].request
                upto == StoredUpTo(p.user_id, p.t)
                last3 == MostRecent(upto, 3)
            IN  30 \in ReturnedCodes
                <=> /\ Cardinality(upto) >= 3
                    /\ \A e \in last3 : e.transaction_type = "withdraw"

\* Rule 30 triggered at t = MaxT on three withdraws of the user, while a
\* deposit of the same user lies after t.
C11_Witness ==
    /\ \E w \in DOMAIN worker :
           /\ Called(w)
           /\ worker[w].request.type = "withdraw"
           /\ worker[w].request.user_id = 1
           /\ worker[w].request.t = MaxT
    /\ 30 \in ReturnedCodes
    /\ \E e \in Ledger : e.user = 1 /\ e.timestamp > MaxT
                         /\ e.transaction_type = "deposit"

\* C12: rule 300 triggers for a deposit evaluated at timestamp t exactly
\* when the user has at least 3 deposits with timestamp <= t and the 3 most
\* recent of them have newest.amount > middle.amount > oldest.amount;
\* withdraws between them are ignored, equal amounts do not trigger.
C12_Rule300 ==
    \A w \in DOMAIN worker :
        (Called(w) /\ worker[w].request.type = "deposit") =>
            LET p == worker[w].request
                deposits == {e \in StoredUpTo(p.user_id, p.t) :
                                e.transaction_type = "deposit"}
                last3 == MostRecent(deposits, 3)
            IN  300 \in ReturnedCodes
                <=> /\ Cardinality(deposits) >= 3
                    /\ \E oldest \in last3, middle \in last3, newest \in last3 :
                           /\ oldest.timestamp < middle.timestamp
                           /\ middle.timestamp < newest.timestamp
                           /\ newest.amount > middle.amount
                           /\ middle.amount > oldest.amount

\* Rule 300 triggered on three increasing deposits with a withdraw of the
\* user between two of them.
C12_Witness ==
    /\ \E w \in DOMAIN worker :
           /\ Called(w)
           /\ worker[w].request.type = "deposit"
           /\ worker[w].request.user_id = 1
    /\ 300 \in ReturnedCodes
    /\ \E d1 \in Ledger, x \in Ledger, d2 \in Ledger :
           /\ d1.user = 1 /\ x.user = 1 /\ d2.user = 1
           /\ d1.transaction_type = "deposit"
           /\ x.transaction_type = "withdraw"
           /\ d2.transaction_type = "deposit"
           /\ d1.timestamp < x.timestamp
           /\ x.timestamp < d2.timestamp

\* C13: rule 123 triggers for a deposit evaluated at timestamp t exactly
\* when the amounts of the user's deposits with timestamp in [t-30, t] sum
\* to more than 200.00: t-30 counts, t-31 does not, exactly 200.00 does not
\* trigger, withdraws in the window do not change the sum.
C13_Rule123 ==
    \A w \in DOMAIN worker :
        (Called(w) /\ worker[w].request.type = "deposit") =>
            LET p == worker[w].request
                window == {e \in Ledger : /\ e.user = p.user_id
                                          /\ e.transaction_type = "deposit"
                                          /\ p.t - 30 <= e.timestamp
                                          /\ e.timestamp <= p.t}
                counted == {e \in Ledger : /\ e.user = p.user_id
                                           /\ e.transaction_type = "deposit"
                                           /\ ~(e.timestamp <= p.t - 31)
                                           /\ ~(e.timestamp > p.t)}
            IN  /\ 123 \in ReturnedCodes <=> SumAmounts(window) > 20000
                /\ SumAmounts(counted) = 20000 => 123 \notin ReturnedCodes
                /\ window = counted

\* Rule 123 triggered at t = MaxT + 30 through a deposit at exactly t - 30,
\* while a larger deposit at t - 31 and a withdraw in the window exist.
C13_Witness ==
    /\ \E w \in DOMAIN worker :
           /\ Called(w)
           /\ worker[w].request.type = "deposit"
           /\ worker[w].request.user_id = 1
           /\ worker[w].request.t = MaxT + 30
    /\ response.alert_codes = <<123>>
    /\ \E e \in Ledger : /\ e.user = 1 /\ e.transaction_type = "deposit"
                         /\ e.timestamp = MaxT /\ e.amount = 10000
    /\ \E e \in Ledger : /\ e.user = 1 /\ e.transaction_type = "deposit"
                         /\ e.timestamp = MaxT + 30 /\ e.amount = 10001
    /\ \E e \in Ledger : /\ e.user = 1 /\ e.transaction_type = "deposit"
                         /\ e.timestamp = MaxT - 1 /\ e.amount = 20001

\* C14: rule 1100 triggers for a withdraw exactly when its amount is above
\* 100.00 (100.01 triggers, 100.00 does not), whatever the ledger, the user
\* and the timestamp are: also on an empty ledger.
C14_Rule1100 ==
    \A w \in DOMAIN worker :
        (Called(w) /\ worker[w].request.type = "withdraw") =>
            LET p == worker[w].request
            IN  /\ 1100 \in ReturnedCodes <=> p.amount > 10000
                /\ p.amount = 10001 => 1100 \in ReturnedCodes
                /\ p.amount = 10000 => 1100 \notin ReturnedCodes
                /\ \A rs \in {{}, Ledger}, u \in users, t \in RuleTimestamps :
                       (1100 \in ReturnedCodes)
                       <=> (\E i \in 1..Len(evaluate_all_rules(
                                            rs, u, "withdraw", p.amount, t)) :
                               evaluate_all_rules(
                                   rs, u, "withdraw", p.amount, t)[i] = 1100)

\* A withdraw of 100.01 evaluated on an empty ledger returned exactly 1100.
C14_Witness ==
    /\ \E w \in DOMAIN worker :
           /\ Called(w)
           /\ worker[w].request.type = "withdraw"
           /\ worker[w].request.amount = 10001
    /\ Ledger = {}
    /\ response.alert_codes = <<1100>>

\* C15: for every ledger and every input the rule engine returns for a
\* withdraw only codes of {1100, 30} and for a deposit only codes of
\* {300, 123}; the withdraw checks are not evaluated for a deposit nor the
\* deposit checks for a withdraw.
C15_RulesByType ==
    \A w \in DOMAIN worker :
        Called(w) =>
            LET p == worker[w].request
            IN  /\ p.type = "withdraw"
                   => /\ ReturnedCodes \subseteq {1100, 30}
                      /\ rules_evaluated(p.type) \subseteq {1100, 30}
                /\ p.type = "deposit"
                   => /\ ReturnedCodes \subseteq {300, 123}
                      /\ rules_evaluated(p.type) \subseteq {300, 123}

\* A deposit over 100.00 was evaluated for a user whose three newest events
\* are withdraws, and nothing was returned.
C15_Witness ==
    /\ \E w \in DOMAIN worker :
           /\ Called(w)
           /\ worker[w].request.type = "deposit"
           /\ worker[w].request.amount > 10000
           /\ worker[w].request.user_id = 1
           /\ worker[w].request.t = MaxT
    /\ response.alert_codes = <<>>
    /\ Cardinality({e \in Ledger : /\ e.user = 1
                                    /\ e.transaction_type = "withdraw"
                                    /\ e.timestamp <= MaxT}) = 3

\* C16: the list the rule engine returns has at most two codes, no code
\* twice, and a fixed order: [1100, 30] when both withdraw rules trigger,
\* [300, 123] when both deposit rules trigger.
C16_OrderedCodes ==
    \A w \in DOMAIN worker :
        Called(w) =>
            LET codes == response.alert_codes
            IN  /\ Len(codes) <= 2
                /\ \A i \in 1..Len(codes), j \in 1..Len(codes) :
                       codes[i] = codes[j] => i = j
                /\ {1100, 30} \subseteq ReturnedCodes => codes = <<1100, 30>>
                /\ {300, 123} \subseteq ReturnedCodes => codes = <<300, 123>>

\* Both deposit rules triggered in one call.
C16_Witness ==
    /\ \E w \in DOMAIN worker : Called(w)
    /\ response.alert_codes = <<300, 123>>

\* C17: in every success response alert is true exactly when alert_codes
\* is non-empty, alert_codes is the list the rule engine returns for the
\* appended event on the ledger that holds it, and user_id is the submitted
\* user_id.
C17_SuccessResponse ==
    [][\A w \in DOMAIN worker :
          Accepted(w) =>
              LET p == worker[w].request
              IN  /\ response'.alert <=> response'.alert_codes # <<>>
                  /\ response'.alert_codes =
                         evaluate_all_rules(LedgerAfter, p.user_id, p.type,
                                            p.amount, p.t)
                  /\ response'.user_id = p.user_id
                  /\ \E e \in LedgerAfter : IsEventOf(e, worker[w].event_id, p)]_vars

\* A success response with alert true and both withdraw codes.
C17_Witness ==
    /\ response.status = 200
    /\ response.alert
    /\ response.alert_codes = <<1100, 30>>
    /\ response.user_id = 1

\* C18: the first event accepted on an empty ledger returns, for a deposit,
\* [] with alert false unless its amount exceeds 200.00 (then [123] with
\* alert true), and for a withdraw [1100] with alert true if its amount
\* exceeds 100.00 and [] with alert false otherwise; 30 and 300 are never
\* returned for it.
C18_FirstEvent ==
    [][\A w \in DOMAIN worker :
          (Accepted(w) /\ Ledger = {}) =>
              LET p == worker[w].request
                  codes == response'.alert_codes
              IN  /\ p.type = "deposit"
                     => codes = IF p.amount > 20000 THEN <<123>> ELSE <<>>
                  /\ p.type = "withdraw"
                     => codes = IF p.amount > 10000 THEN <<1100>> ELSE <<>>
                  /\ response'.alert <=> codes # <<>>
                  /\ \A i \in 1..Len(codes) : codes[i] \notin {30, 300}]_vars

\* The first event, a deposit of 200.01, was answered with [123].
C18_Witness ==
    /\ response.status = 200
    /\ response.alert_codes = <<123>>
    /\ Cardinality(Ledger) = 1
    /\ \E e \in Ledger : e.transaction_type = "deposit" /\ e.amount = 20001

\* A payload the field validation has to refuse.
Malformed(p) ==
    \/ p.missing # {}
    \/ p.type \notin {"deposit", "withdraw"}
    \/ p.amount <= 0
    \/ p.t < 0
    \/ p.user_id <= 0
    \/ p.user_id \notin users

\* C19: a request with a type outside {deposit, withdraw}, an amount <= 0,
\* a negative timestamp, a missing field, a user_id <= 0 or a user_id of no
\* user is refused with a validation error at validation:
\*  - the serializer reports an error for it and the answer is 400;
\*  - no worker is ever appending or evaluating for such a request, and no
\*    row made from one is in the table;
\*  - the step that gives a validation answer changes neither the table
\*    nor a worker.
C19_ValidationRejects ==
    /\ [](/\ \A p \in traffic :
                 Malformed(p)
                 => /\ SerializerErrors(p, users, rows) # {}
                    /\ "t.order" \notin SerializerErrors(p, users, rows)
                    /\ InvalidPayload(p, SerializerErrors(p, users, rows),
                                      rows).status = 400
          /\ \A w \in DOMAIN worker :
                 worker[w].stage # "idle" => ~Malformed(worker[w].request)
          /\ \A e \in rows :
                 /\ e.user \in users
                 /\ e.transaction_type \in {"deposit", "withdraw"}
                 /\ e.amount > 0
                 /\ e.timestamp >= 0)
    /\ [][(response' # response /\ response'.details # {})
             => /\ response'.status = 400
                /\ response'.error = "Invalid payload"
                /\ rows' = rows
                /\ worker' = worker]_vars

\* A request wrong in every field was refused while an event is stored.
C19_Witness ==
    /\ response.status = 400
    /\ response.details =
           {"type", "amount", "user_id.does_not_exist", "t.min_value"}
    /\ Ledger # {}
    /\ rows = Ledger

\* The largest timestamp of a set of events (-1 for none).
LatestTimestamp(S) ==
    IF S = {} THEN 0 - 1
    ELSE CHOOSE t \in {e.timestamp : e \in S} :
             \A e \in S : e.timestamp <= t

\* C20: the ledger is append-only under ingestion: in every step of every
\* interleaving each stored event stays stored with the same user, type,
\* amount and timestamp, the set of stored events only grows, and the
\* latest stored timestamp does not decrease.
C20_AppendOnly ==
    [][/\ Ledger \subseteq LedgerAfter
       /\ \A e \in Ledger : \E o \in LedgerAfter :
              /\ o.id = e.id
              /\ o.user = e.user
              /\ o.transaction_type = e.transaction_type
              /\ o.amount = e.amount
              /\ o.timestamp = e.timestamp
       /\ Cardinality(Ledger) <= Cardinality(LedgerAfter)
       /\ LatestTimestamp(Ledger) <= LatestTimestamp(LedgerAfter)]_vars

\* Every timestamp is stored, by both users, and the last request failed.
C20_Witness ==
    /\ Cardinality(Ledger) = MaxT + 1
    /\ \E e \in Ledger : e.user = 1
    /\ \E e \in Ledger : e.user = 2
    /\ response.status = 500
    /\ response.error = "Server Error"

\* The stage of the request of worker w: Validating is the step that takes
\* the request from "idle", Done and Rejected are the steps back to "idle".
StageOf(w) == worker[w].stage

\* The request of worker w goes one stage on, or leaves, in this step.
InOrder(w) ==
    \/ worker'[w].stage = worker[w].stage
    \/ worker[w].stage = "idle" /\ worker'[w].stage \in {"idle", "Appending"}
    \/ worker[w].stage = "Appending" /\ worker'[w].stage \in {"Evaluating", "idle"}
    \/ worker[w].stage = "Evaluating" /\ worker'[w].stage = "idle"

StagesInOrder ==
    [][\A w \in DOMAIN worker :
          /\ InOrder(w)
          /\ worker'[w].stage # "idle" /\ worker[w].stage # "idle"
             => worker'[w].request = worker[w].request
          /\ (worker[w].stage = "Evaluating" /\ worker'[w].stage = "idle")
             => (response'.status = 200 \/ response'.error # "")
          /\ (worker[w].stage = "Appending" /\ worker'[w].stage = "idle")
             => response'.error # ""]_vars

EveryRequestEnds ==
    \A w \in Workers : (worker[w].stage # "idle") ~> (worker[w].stage = "idle")

C23_StoredEventsValid ==
    \A e \in rows :
        /\ e.amount > 0
        /\ e.transaction_type \in {"deposit", "withdraw"}
        /\ e.timestamp >= 0
        /\ e.user \in users
        /\ e.user >= 1

\* Every timestamp holds a stored event and a request with amount 0 was
\* refused last.
C23_Witness ==
    /\ Cardinality(Ledger) = MaxT + 1
    /\ response.status = 400
    /\ response.details = {"amount"}

\* C24: an alert that was raised changes nothing for later evaluations:
\* once the three most recent stored events of a user are withdraws, every
\* further withdraw of that user that is accepted (no deposit of the user
\* having come between) triggers code 30 again.
C24_StreakAlertsAgain ==
    [][\A w \in DOMAIN worker :
          (/\ Accepted(w)
           /\ worker[w].request.type = "withdraw"
           /\ Cardinality(StoredOf(worker[w].request.user_id)) >= 3
           /\ \A e \in MostRecent(StoredOf(worker[w].request.user_id), 3) :
                  e.transaction_type = "withdraw")
          => \E i \in 1..Len(response'.alert_codes) :
                 response'.alert_codes[i] = 30]_vars

\* C25: the codes returned for an evaluation of a user depend on that
\* user's own events only: on every ledger that holds the same events of the
\* user and any part of the events of the other users (none of them
\* included) the same evaluation returns the same codes.
C25_OwnEventsOnly ==
    \A w \in DOMAIN worker :
        Called(w) =>
            LET p == worker[w].request
                own == {e \in Ledger : e.user = p.user_id}
            IN  \A others \in SUBSET (Ledger \ own) :
                    evaluate_all_rules(own \cup others, p.user_id, p.type,
                                       p.amount, p.t) = response.alert_codes

\* Rule 30 was returned for user 1 on a ledger that also holds a deposit of
\* user 2, and the same request would be refused for ordering because of an
\* event of user 2 alone.
C25_Witness ==
    /\ \E w \in DOMAIN worker :
           /\ Called(w)
           /\ worker[w].request.user_id = 1
           /\ worker[w].request.type = "withdraw"
           /\ validate(worker[w].request, rows) = {"t.order"}
           /\ validate(worker[w].request, {e \in rows : e.user = 1}) = {}
    /\ response.alert_codes = <<30>>
    /\ \E e \in Ledger : e.user = 2 /\ e.transaction_type = "deposit"

\* C26: when requests are processed one at a time, the event just appended
\* has the largest timestamp of the whole ledger at evaluation time, so the
\* bound timestamp <= current leaves out none of the user's events: 30 is
\* returned exactly when the user's three latest events overall are
\* withdraws, 300 exactly when the user's three latest deposits overall are
\* strictly increasing.
C26_SerialLatest ==
    [][\A w \in DOMAIN worker :
          Accepted(w) =>
              LET p == worker[w].request
                  codes == {response'.alert_codes[i] :
                                i \in 1..Len(response'.alert_codes)}
                  all == {e \in LedgerAfter : e.user = p.user_id}
                  deposits == {e \in all : e.transaction_type = "deposit"}
              IN  /\ \A e \in LedgerAfter : e.timestamp <= p.t
                  /\ \A e \in all : e.timestamp <= p.t
                  /\ p.type = "withdraw"
                     => (30 \in codes
                         <=> /\ Cardinality(all) >= 3
                             /\ \A e \in MostRecent(all, 3) :
                                    e.transaction_type = "withdraw")
                  /\ p.type = "deposit"
                     => (300 \in codes
                         <=> /\ Cardinality(deposits) >= 3
                             /\ \A e1 \in MostRecent(deposits, 3),
                                   e2 \in MostRecent(deposits, 3) :
                                    e1.timestamp < e2.timestamp
                                    => e1.amount < e2.amount)]_vars

\* The third withdraw in a row, not over 100.00, was answered with [30].
C26_Witness ==
    /\ response.status = 200
    /\ response.alert_codes = <<30>>
    /\ Cardinality(Ledger) = 3
    /\ \A e \in Ledger : e.transaction_type = "withdraw"

\* C27: the "Response validation failed" answer is never given: a request
\* whose event is committed is answered 200 with a boolean alert, a list
\* alert_codes of codes of {1100, 30, 300, 123} and an integer user_id, so
\* no request is answered with an error after its event is committed.
C27_NoResponseValidationFailure ==
    /\ [](response.error # "Response validation failed")
    /\ [][LedgerAfter # Ledger
             => /\ response'.status = 200
                /\ response'.error = ""
                /\ response'.alert \in BOOLEAN
                /\ \A i \in 1..Len(response'.alert_codes) :
                       response'.alert_codes[i] \in {1100, 30, 300, 123}
                /\ response'.user_id \in users
                /\ ResponseIsValid(response'.alert, response'.alert_codes,
                                   response'.user_id)]_vars

\* An event was committed and answered with an empty list of codes.
C27_Witness ==
    /\ response.status = 200
    /\ response.alert = FALSE
    /\ response.alert_codes = <<>>
    /\ Cardinality(Ledger) = 2

====
